---- MODULE Spec2Model ----
(***************************************************************************)
(* A model of the system resource monitor: the ResourceCollector           *)
(* (resource_collector.py), the sampling loop of monitor_system            *)
(* (monitor.py) and the data-dependent behaviour of the GraphGenerator     *)
(* (graph_generator.py).                                                   *)
(*                                                                         *)
(* Conventions.                                                            *)
(*   - Python's None is the empty sequence <<>>, a present optional value  *)
(*     x is the one-element sequence <<x>>.                                *)
(*   - Python floats that result from a division are exact rationals       *)
(*     <<numerator, denominator>> in lowest terms, denominator > 0.        *)
(*   - The wall clock (time.time(), datetime.now()) is the variable clock, *)
(*     in seconds.                                                         *)
(*   - An OS query (a psutil or GPUtil call) is a record chosen by the     *)
(*     environment: ok = FALSE stands for the call raising an Exception.   *)
(*   - A Python list is an object: the list that get_history returned is   *)
(*     the variable held, which either is the list self.data_history is    *)
(*     bound to (its items are data_history) or has items of its own.      *)
(***************************************************************************)
EXTENDS Integers, Sequences, FiniteSets, TLC

VARIABLES
    pc,                 \* position of the thread of control
    duration_minutes,   \* args.duration
    interval_seconds,   \* args.interval
    total_iterations,   \* monitor_system: total_iterations
    i,                  \* monitor_system: the loop variable
    GPU_AVAILABLE,      \* resource_collector.py: whether GPUtil imported
    data_history,       \* ResourceCollector.data_history
    network_last,       \* ResourceCollector.network_last
    last_time,          \* ResourceCollector.last_time
    clock,              \* the wall clock
    graph_paths,        \* monitor_system: graph_paths (<<>> until assigned)
    pdf_path,           \* monitor_system: pdf_path (<<>> until assigned)
    os_log,             \* history variable: the OS state each completed collect_all observed
    stop,               \* history variable: why and where the sampling loop was left
    sleeps,             \* history variable: number of completed time.sleep calls
    graph_error,        \* history variable: why generate_all_graphs raised ("" if it did not)
    last_call,          \* history variable: the latest direct invocation of the collector
    held                \* the list a caller of get_history holds

vars == <<pc, duration_minutes, interval_seconds, total_iterations, i, GPU_AVAILABLE,
          data_history, network_last, last_time, clock, graph_paths, pdf_path,
          os_log, stop, sleeps, graph_error, last_call, held>>

-----------------------------------------------------------------------------
(* Bounds of the model *)

MaxIterations == 3      \* configurations with more scheduled ticks are not explored
MaxCalls == 2           \* collect_all invocations of a free caller
MaxClock == 3           \* the free caller's wall clock stays within 0..MaxClock
MaxGroups == 3          \* sensor groups in one sensors_temperatures() result
MaxDevices == 2         \* devices in one GPUtil.getGPUs() result
MaxReads == 2        \* consecutive get_history calls of a direct caller

-----------------------------------------------------------------------------
(* Optional values and exact rationals *)

None == <<>>

Some(x) == <<x>>

Abs(n) == IF n < 0 THEN 0 - n ELSE n

RECURSIVE GCD(_, _)
GCD(a, b) == IF b = 0 THEN a ELSE GCD(b, a % b)

\* n / d as a fraction in lowest terms with a positive denominator (d # 0)
Rat(n, d) ==
    LET g == GCD(Abs(n), Abs(d))
        s == IF d < 0 THEN 0 - 1 ELSE 1
    IN  <<(s * n) \div g, (s * d) \div g>>

RatMul(r, k) == Rat(r[1] * k, r[2])

RatDiv(r, k) == Rat(r[1], r[2] * k)

Zero == Rat(0, 1)

-----------------------------------------------------------------------------
(* ResourceCollector: the adapters. Each is its try block when the queries  *)
(* answer, and its except Exception branch (a message is printed, which is  *)
(* taken to succeed, and the zeroed record is returned) when one raises.    *)

CpuZero ==
    [percent |-> 0, count |-> 0, freq_current |-> None, freq_max |-> None,
     temperature |-> None]

GroupNames(temps) == {temps[k].name : k \in DOMAIN temps}

Group(temps, name) ==
    temps[CHOOSE k \in DOMAIN temps : temps[k].name = name].readings

\* temps[...][0].current: IndexError on a group without readings, caught at line 46
FirstReading(readings) == IF readings = <<>> THEN None ELSE Some(readings[1])

\* cpu_temp with the two preferred names tried in the other order
cpu_temp_thermal_first(q) ==
    IF q.sensors # "ok" THEN None
    ELSE IF "cpu_thermal" \in GroupNames(q.temps)
         THEN FirstReading(Group(q.temps, "cpu_thermal"))
    ELSE IF "coretemp" \in GroupNames(q.temps)
         THEN FirstReading(Group(q.temps, "coretemp"))
    ELSE IF q.temps # <<>>
         THEN FirstReading(q.temps[1].readings)
    ELSE None

\* lines 35-47: the CPU temperature chosen from psutil.sensors_temperatures()
cpu_temp(q) ==
    IF q.sensors # "ok" THEN None
    ELSE IF "coretemp" \in GroupNames(q.temps)
         THEN FirstReading(Group(q.temps, "coretemp"))
    ELSE IF "cpu_thermal" \in GroupNames(q.temps)
         THEN FirstReading(Group(q.temps, "cpu_thermal"))
    ELSE IF q.temps # <<>>
         THEN FirstReading(q.temps[1].readings)
    ELSE None

collect_cpu_info(q) ==
    IF ~q.ok \/ q.sensors = "os_error" THEN CpuZero
    ELSE [percent |-> q.percent,
          count |-> q.count,
          freq_current |-> IF q.freq # None THEN Some(q.freq[1].current) ELSE None,
          freq_max |-> IF q.freq # None THEN Some(q.freq[1].max) ELSE None,
          temperature |-> cpu_temp(q)]

MemoryZero ==
    [total |-> 0, available |-> 0, used |-> 0, percent |-> 0,
     swap_total |-> 0, swap_used |-> 0, swap_percent |-> 0]

\* collect_memory_info whose except branch zeroes the swap fields only
collect_memory_info_leaking(q) ==
    [total |-> q.total, available |-> q.available, used |-> q.used,
     percent |-> q.percent,
     swap_total |-> IF q.ok THEN q.swap_total ELSE 0,
     swap_used |-> IF q.ok THEN q.swap_used ELSE 0,
     swap_percent |-> IF q.ok THEN q.swap_percent ELSE 0]

collect_memory_info(q) ==
    IF ~q.ok THEN MemoryZero
    ELSE [total |-> q.total, available |-> q.available, used |-> q.used,
          percent |-> q.percent, swap_total |-> q.swap_total,
          swap_used |-> q.swap_used, swap_percent |-> q.swap_percent]

DiskZero ==
    [total |-> 0, used |-> 0, free |-> 0, percent |-> 0,
     read_bytes |-> 0, write_bytes |-> 0]

collect_disk_info(q) ==
    IF ~q.ok THEN DiskZero
    ELSE [total |-> q.total, used |-> q.used, free |-> q.free, percent |-> q.percent,
          read_bytes |-> IF q.io # None THEN q.io[1].read_bytes ELSE 0,
          write_bytes |-> IF q.io # None THEN q.io[1].write_bytes ELSE 0]

NetworkZero ==
    [bytes_sent |-> 0, bytes_recv |-> 0, packets_sent |-> 0, packets_recv |-> 0,
     upload_speed_mbps |-> Zero, download_speed_mbps |-> Zero]

\* lines 113-114: (diff / time_delta) * 8 / 1_000_000 if time_delta > 0 else 0
speed_mbps(bytes_diff, time_delta) ==
    IF time_delta > 0
    THEN RatDiv(RatMul(Rat(bytes_diff, time_delta), 8), 1000000)
    ELSE Zero

\* collect_network_info that stores the readings only when it derived a rate
collect_network_info_keeping(rate, q) ==
    IF ~q.ok THEN [rate |-> rate, ret |-> NetworkZero]
    ELSE LET time_delta == q.now - rate.last_time
             bytes_sent_diff == q.counters.bytes_sent - rate.network_last.bytes_sent
             bytes_recv_diff == q.counters.bytes_recv - rate.network_last.bytes_recv
         IN  [rate |-> IF time_delta > 0
                       THEN [network_last |-> q.counters, last_time |-> q.now]
                       ELSE rate,
              ret |-> [bytes_sent |-> q.counters.bytes_sent,
                       bytes_recv |-> q.counters.bytes_recv,
                       packets_sent |-> q.counters.packets_sent,
                       packets_recv |-> q.counters.packets_recv,
                       upload_speed_mbps |-> speed_mbps(bytes_sent_diff, time_delta),
                       download_speed_mbps |-> speed_mbps(bytes_recv_diff, time_delta)]]

\* collect_network_info whose except branch restarts the measuring interval
collect_network_info_stamping(rate, q) ==
    IF ~q.ok THEN [rate |-> [rate EXCEPT !.last_time = q.now], ret |-> NetworkZero]
    ELSE LET time_delta == q.now - rate.last_time
             bytes_sent_diff == q.counters.bytes_sent - rate.network_last.bytes_sent
             bytes_recv_diff == q.counters.bytes_recv - rate.network_last.bytes_recv
         IN  [rate |-> [network_last |-> q.counters, last_time |-> q.now],
              ret |-> [bytes_sent |-> q.counters.bytes_sent,
                       bytes_recv |-> q.counters.bytes_recv,
                       packets_sent |-> q.counters.packets_sent,
                       packets_recv |-> q.counters.packets_recv,
                       upload_speed_mbps |-> speed_mbps(bytes_sent_diff, time_delta),
                       download_speed_mbps |-> speed_mbps(bytes_recv_diff, time_delta)]]

\* rate: the RateState [network_last, last_time]; q: time.time() and net_io_counters()
\* returns the RateState afterwards and the record returned
collect_network_info(rate, q) ==
    IF ~q.ok THEN [rate |-> rate, ret |-> NetworkZero]
    ELSE LET time_delta == q.now - rate.last_time
             bytes_sent_diff == q.counters.bytes_sent - rate.network_last.bytes_sent
             bytes_recv_diff == q.counters.bytes_recv - rate.network_last.bytes_recv
         IN  [rate |-> [network_last |-> q.counters, last_time |-> q.now],
              ret |-> [bytes_sent |-> q.counters.bytes_sent,
                       bytes_recv |-> q.counters.bytes_recv,
                       packets_sent |-> q.counters.packets_sent,
                       packets_recv |-> q.counters.packets_recv,
                       upload_speed_mbps |-> speed_mbps(bytes_sent_diff, time_delta),
                       download_speed_mbps |-> speed_mbps(bytes_recv_diff, time_delta)]]

\* gpu_record that keeps the driver's fractional load
gpu_record_fractional(gpu) ==
    [id |-> gpu.id,
     name |-> gpu.name,
     load |-> gpu.load,
     memory_used |-> gpu.memoryUsed,
     memory_total |-> gpu.memoryTotal,
     memory_percent |-> IF gpu.memoryTotal > 0
                        THEN RatMul(Rat(gpu.memoryUsed, gpu.memoryTotal), 100)
                        ELSE Zero,
     temperature |-> gpu.temperature]

\* lines 145-153: the record built for one device
gpu_record(gpu) ==
    [id |-> gpu.id,
     name |-> gpu.name,
     load |-> RatMul(gpu.load, 100),
     memory_used |-> gpu.memoryUsed,
     memory_total |-> gpu.memoryTotal,
     memory_percent |-> IF gpu.memoryTotal > 0
                        THEN RatMul(Rat(gpu.memoryUsed, gpu.memoryTotal), 100)
                        ELSE Zero,
     temperature |-> gpu.temperature]

collect_gpu_info(available, q) ==
    IF ~available THEN None
    ELSE IF ~q.ok THEN None
    ELSE IF q.gpus = <<>> THEN None
    ELSE Some([gpus |-> [k \in DOMAIN q.gpus |-> gpu_record(q.gpus[k])]])

\* collect_all that stores a Snapshot only when no adapter degraded it
collect_all_dropping(self, available, os) ==
    LET net == collect_network_info(
                   [network_last |-> self.network_last, last_time |-> self.last_time],
                   os.network)
        data == [timestamp |-> os.now,
                 cpu |-> collect_cpu_info(os.cpu),
                 memory |-> collect_memory_info(os.memory),
                 disk |-> collect_disk_info(os.disk),
                 network |-> net.ret,
                 gpu |-> collect_gpu_info(available, os.gpu)]
        degraded == ~(os.cpu.ok /\ os.memory.ok /\ os.disk.ok /\ os.network.ok /\ os.gpu.ok)
    IN  [self |-> [data_history |-> IF degraded THEN self.data_history
                                    ELSE Append(self.data_history, data),
                   network_last |-> net.rate.network_last,
                   last_time |-> net.rate.last_time],
         data |-> data]

\* collect_all that keeps a window of the latest Snapshot only
collect_all_windowed(self, available, os) ==
    LET net == collect_network_info(
                   [network_last |-> self.network_last, last_time |-> self.last_time],
                   os.network)
        data == [timestamp |-> os.now,
                 cpu |-> collect_cpu_info(os.cpu),
                 memory |-> collect_memory_info(os.memory),
                 disk |-> collect_disk_info(os.disk),
                 network |-> net.ret,
                 gpu |-> collect_gpu_info(available, os.gpu)]
    IN  [self |-> [data_history |-> <<data>>,
                   network_last |-> net.rate.network_last,
                   last_time |-> net.rate.last_time],
         data |-> data]

\* self: [data_history, network_last, last_time]; returns the collector afterwards
\* and the Snapshot returned
collect_all(self, available, os) ==
    LET net == collect_network_info(
                   [network_last |-> self.network_last, last_time |-> self.last_time],
                   os.network)
        data == [timestamp |-> os.now,
                 cpu |-> collect_cpu_info(os.cpu),
                 memory |-> collect_memory_info(os.memory),
                 disk |-> collect_disk_info(os.disk),
                 network |-> net.ret,
                 gpu |-> collect_gpu_info(available, os.gpu)]
    IN  [self |-> [data_history |-> Append(self.data_history, data),
                   network_last |-> net.rate.network_last,
                   last_time |-> net.rate.last_time],
         data |-> data]

\* A reference to a list, as a caller holds it: none; the list that
\* self.data_history is bound to (its items are those of data_history); or a list
\* that self.data_history is no longer bound to, with items of its own.
NoRef == [kind |-> "none", items |-> <<>>]

Shared == [kind |-> "shared", items |-> <<>>]

Detached(items) == [kind |-> "detached", items |-> items]

\* get_history that hands its list over and starts a new one
get_history_draining(self) ==
    [self |-> [self EXCEPT !.data_history = <<>>],
     ret |-> self.data_history,
     ref |-> Detached(self.data_history)]

\* lines 176-178: returns the collector afterwards, the sequence returned (ret) and
\* the list object it is (ref): the very list self.data_history is bound to
get_history(self) ==
    [self |-> self,
     ret |-> self.data_history,
     ref |-> Shared]

\* clear_history that empties the list in place (self.data_history.clear())
clear_history_in_place(self, ref) ==
    [self |-> [self EXCEPT !.data_history = <<>>],
     ref |-> ref]

\* lines 180-182: self.data_history is bound to a new empty list; a reference ref to
\* the list it was bound to keeps that list
clear_history(self, ref) ==
    [self |-> [self EXCEPT !.data_history = <<>>],
     ref |-> IF ref.kind = "shared" THEN Detached(self.data_history) ELSE ref]

-----------------------------------------------------------------------------
(* GraphGenerator: what decides whether a chart is drawn, replaced by a     *)
(* placeholder, or fails                                                    *)

_extract_timestamps(h) == [k \in DOMAIN h |-> h[k].timestamp]

HasTemperature(entry) == entry.cpu.temperature # None

HasGpu(entry) == entry.gpu # None

\* lines 36-69: never fails; the temperature panel is a placeholder unless every
\* entry has a temperature
generate_cpu_graph(h) ==
    LET timestamps == _extract_timestamps(h)
        temperatures == SelectSeq(h, HasTemperature)
    IN  [ok |-> TRUE,
         path |-> "cpu_graph.png",
         placeholder |-> ~(temperatures # <<>> /\ Len(temperatures) = Len(timestamps))]

generate_memory_graph(h) == [ok |-> TRUE, path |-> "memory_graph.png", placeholder |-> FALSE]

generate_disk_graph(h) == [ok |-> TRUE, path |-> "disk_graph.png", placeholder |-> FALSE]

generate_network_graph(h) == [ok |-> TRUE, path |-> "network_graph.png", placeholder |-> FALSE]

\* lines 149-215. With GPU data in some entry and in the first one, line 183 indexes
\* gpus[gpu_id] in every entry that has GPU data (IndexError when an entry has fewer
\* devices than the first) and lines 190/194 plot the filtered lists against all
\* timestamps (matplotlib raises ValueError when the lengths differ)
generate_gpu_graph(h) ==
    LET has_gpu == \E k \in DOMAIN h : HasGpu(h[k])
        timestamps == _extract_timestamps(h)
        num_gpus == IF HasGpu(h[1]) THEN Len(h[1].gpu[1].gpus) ELSE 0
        with_gpu == SelectSeq(h, HasGpu)
        index_error == \E k \in DOMAIN with_gpu : Len(with_gpu[k].gpu[1].gpus) < num_gpus
        shape_error == Len(with_gpu) # Len(timestamps)
    IN  IF ~has_gpu \/ num_gpus = 0
        THEN [ok |-> TRUE, path |-> "gpu_graph.png", placeholder |-> TRUE]
        ELSE IF index_error \/ shape_error
        THEN [ok |-> FALSE, path |-> "", placeholder |-> FALSE]
        ELSE [ok |-> TRUE, path |-> "gpu_graph.png", placeholder |-> FALSE]

\* generate_all_graphs that leaves out a chart that raises
generate_all_graphs_skipping(h) ==
    IF h = <<>> THEN [ok |-> FALSE, graphs |-> None]
    ELSE LET cpu == generate_cpu_graph(h)
             memory == generate_memory_graph(h)
             disk == generate_disk_graph(h)
             network == generate_network_graph(h)
             gpu == generate_gpu_graph(h)
         IN  IF gpu.ok
             THEN [ok |-> TRUE,
                   graphs |-> Some([cpu |-> cpu.path, memory |-> memory.path,
                                    disk |-> disk.path, network |-> network.path,
                                    gpu |-> gpu.path])]
             ELSE [ok |-> TRUE,
                   graphs |-> Some([cpu |-> cpu.path, memory |-> memory.path,
                                    disk |-> disk.path, network |-> network.path])]

\* lines 217-230: raises on an empty history and when a chart raises
generate_all_graphs(h) ==
    IF h = <<>> THEN [ok |-> FALSE, graphs |-> None]
    ELSE LET cpu == generate_cpu_graph(h)
             memory == generate_memory_graph(h)
             disk == generate_disk_graph(h)
             network == generate_network_graph(h)
             gpu == generate_gpu_graph(h)
         IN  IF cpu.ok /\ memory.ok /\ disk.ok /\ network.ok /\ gpu.ok
             THEN [ok |-> TRUE,
                   graphs |-> Some([cpu |-> cpu.path, memory |-> memory.path,
                                    disk |-> disk.path, network |-> network.path,
                                    gpu |-> gpu.path])]
             ELSE [ok |-> FALSE, graphs |-> None]

-----------------------------------------------------------------------------
(* The environment: what the OS queries of one tick return *)

CpuInterval == 1        \* psutil.cpu_percent(interval=1) blocks for one second

Adapters == {"cpu", "memory", "disk", "network", "gpu"}

\* cumulative counters of a host with a constant traffic, t seconds after boot
CountersAt(t) ==
    [bytes_sent |-> 125000 * t, bytes_recv |-> 250000 * t,
     packets_sent |-> 100 * t, packets_recv |-> 200 * t]

Device(k) ==
    [id |-> k - 1, name |-> "GPU", load |-> Rat(1, 2), memoryUsed |-> 2000,
     memoryTotal |-> 8000, temperature |-> 60 + k]

\* the queries of one tick: the adapters in failed raise; a bare host has no
\* temperature sensor, no cpu_freq, no disk_io_counters and no GPU device
EnvOf(failed, bare) ==
    [cpu |-> [ok |-> "cpu" \notin failed, percent |-> 37, count |-> 4,
              freq |-> IF bare THEN None ELSE Some([current |-> 2400, max |-> 3600]),
              sensors |-> IF bare THEN "attr_error" ELSE "ok",
              temps |-> IF bare THEN <<>>
                        ELSE <<[name |-> "coretemp", readings |-> <<71>>]>>],
     memory |-> [ok |-> "memory" \notin failed, total |-> 16000, available |-> 6000,
                 used |-> 10000, percent |-> 62, swap_total |-> 2000,
                 swap_used |-> 500, swap_percent |-> 25],
     disk |-> [ok |-> "disk" \notin failed, total |-> 500, used |-> 200, free |-> 300,
               percent |-> 40,
               io |-> IF bare THEN None
                      ELSE Some([read_bytes |-> 7000, write_bytes |-> 9000])],
     network |-> [ok |-> "network" \notin failed],
     gpu |-> [ok |-> "gpu" \notin failed,
              gpus |-> IF bare THEN <<>> ELSE <<Device(1)>>]]

FailSets == {{}} \cup {{a} : a \in Adapters} \cup {Adapters}

RunEnvs == {EnvOf(failed, FALSE) : failed \in FailSets} \cup {EnvOf({}, TRUE)}

\* the tick's queries at wall-clock time t: datetime.now() reads t, and the network
\* adapter's time.time() reads t plus the second cpu_percent blocked for
OSAt(env, t) ==
    LET t_net == t + (IF env.cpu.ok THEN CpuInterval ELSE 0)
    IN  [now |-> t,
         cpu |-> env.cpu,
         memory |-> env.memory,
         disk |-> env.disk,
         network |-> [ok |-> env.network.ok, now |-> t_net, counters |-> CountersAt(t_net)],
         gpu |-> env.gpu]

Self == [data_history |-> data_history, network_last |-> network_last,
         last_time |-> last_time]

\* the items of the list a caller of get_history holds
HeldItems == IF held.kind = "shared" THEN data_history ELSE held.items

NoCall == [op |-> "none", done |-> FALSE]

NoStop == [cause |-> "none", at |-> "", i |-> 0]

-----------------------------------------------------------------------------
(* monitor.py: main and monitor_system *)

Durations == {0 - 1, 0, 1}

Intervals == {0 - 5, 0, 15, 20, 25, 30, 60, 90}

\* valid_config without the test of line 195
valid_config_unbounded(duration, interval) ==
    ~(duration <= 0) /\ ~(interval <= 0)

\* main, lines 187-197
valid_config(duration, interval) ==
    ~(duration <= 0) /\ ~(interval <= 0) /\ ~(interval > duration * 60)

\* line 48
total_iterations_of(duration, interval) == (duration * 60) \div interval

\* waits_after that also waits after the last tick
waits_after_every(iteration, total) == iteration < total

\* line 70: whether the loop waits after tick i
waits_after(iteration, total) == iteration < total - 1

\* lines 73-88: where the handlers of the loop body lead
after_except(kind, iteration) ==
    IF iteration > 0 THEN "finalize"
    ELSE IF kind = "interrupt" THEN "ret_interrupted" ELSE "ret_failed"

InitCollector ==
    /\ data_history = <<>>
    /\ network_last = CountersAt(0)
    /\ last_time = 0
    /\ clock = 0
    /\ os_log = <<>>
    /\ last_call = NoCall
    /\ held = NoRef

InitRun ==
    /\ total_iterations = 0
    /\ i = 0
    /\ graph_paths = None
    /\ pdf_path = None
    /\ stop = NoStop
    /\ sleeps = 0
    /\ graph_error = ""

Init ==
    /\ pc = "main"
    /\ duration_minutes \in Durations
    /\ interval_seconds \in Intervals
    /\ valid_config(duration_minutes, interval_seconds)
         => total_iterations_of(duration_minutes, interval_seconds) <= MaxIterations
    /\ GPU_AVAILABLE \in BOOLEAN
    /\ InitCollector
    /\ InitRun

config == <<duration_minutes, interval_seconds, GPU_AVAILABLE>>

collector == <<data_history, network_last, last_time>>

rendering == <<graph_paths, pdf_path, graph_error>>

\* main, lines 187-197: sys.exit(1) on an invalid configuration
MainRejects ==
    /\ pc = "main"
    /\ ~valid_config(duration_minutes, interval_seconds)
    /\ pc' = "exit1"
    /\ UNCHANGED <<config, collector, rendering, total_iterations, i, clock, os_log,
                   stop, sleeps, last_call, held>>

\* lines 47-48: the collector is constructed and the ticks are scheduled
MonitorStart ==
    /\ pc = "main"
    /\ valid_config(duration_minutes, interval_seconds)
    /\ data_history' = <<>>
    /\ network_last' = CountersAt(clock)
    /\ last_time' = clock
    /\ total_iterations' = total_iterations_of(duration_minutes, interval_seconds)
    /\ i' = 0
    /\ pc' = IF 0 < total_iterations' THEN "loop" ELSE "finalize"
    /\ UNCHANGED <<config, rendering, clock, os_log, stop, sleeps, last_call, held>>

\* line 47: psutil.net_io_counters() raises in __init__; main's handler exits
MonitorInitFails ==
    /\ pc = "main"
    /\ valid_config(duration_minutes, interval_seconds)
    /\ pc' = "fatal"
    /\ UNCHANGED <<config, collector, rendering, total_iterations, i, clock, os_log,
                   stop, sleeps, last_call, held>>

\* line 57: collect_all returns
Tick(env) ==
    /\ pc = "loop"
    /\ LET os == OSAt(env, clock)
           r == collect_all(Self, GPU_AVAILABLE, os)
       IN  /\ data_history' = r.self.data_history
           /\ network_last' = r.self.network_last
           /\ last_time' = r.self.last_time
           /\ clock' = os.network.now
           /\ os_log' = Append(os_log, os)
    /\ pc' = "progress"
    /\ UNCHANGED <<config, rendering, total_iterations, i, stop, sleeps, last_call, held>>

\* collect_all is left by an exception before line 173: nothing is appended; the
\* network adapter has run (ran) or not
Unfinished(env, ran) ==
    /\ LET net == collect_network_info(
                      [network_last |-> network_last, last_time |-> last_time],
                      OSAt(env, clock).network)
       IN  /\ network_last' = IF ran THEN net.rate.network_last ELSE network_last
           /\ last_time' = IF ran THEN net.rate.last_time ELSE last_time
    /\ UNCHANGED data_history

Leave(kind) ==
    /\ pc' = after_except(kind, i)
    /\ stop' = [cause |-> kind, at |-> pc, i |-> i]

\* lines 81-88: an Exception escapes collect_all
TickRaises ==
    /\ pc = "loop"
    /\ \E env \in RunEnvs, ran \in BOOLEAN : Unfinished(env, ran)
    /\ Leave("exception")
    /\ UNCHANGED <<config, rendering, total_iterations, i, clock, os_log, sleeps,
                   last_call, held>>

\* lines 60-67 raise (print_progress_bar), lines 81-88 handle it
ProgressRaises ==
    /\ pc = "progress"
    /\ Leave("exception")
    /\ UNCHANGED <<config, collector, rendering, total_iterations, i, clock, os_log,
                   sleeps, last_call, held>>

\* line 54: the for statement takes the next value of range(total), or the loop ends
NextIteration(next_i) ==
    IF next_i < total_iterations
    THEN /\ i' = next_i
         /\ pc' = "loop"
         /\ UNCHANGED stop
    ELSE /\ i' = i
         /\ pc' = "finalize"
         /\ stop' = [cause |-> "complete", at |-> pc, i |-> i]

\* lines 60-70: progress is shown; the loop waits, or goes on without waiting
Progress ==
    /\ pc = "progress"
    /\ IF waits_after(i, total_iterations)
       THEN /\ pc' = "sleep"
            /\ UNCHANGED <<i, stop>>
       ELSE NextIteration(i + 1)
    /\ UNCHANGED <<config, collector, rendering, total_iterations, clock, os_log,
                   sleeps, last_call, held>>

\* line 71 returns after interval_seconds
Sleep ==
    /\ pc = "sleep"
    /\ clock' = clock + interval_seconds
    /\ sleeps' = sleeps + 1
    /\ NextIteration(i + 1)
    /\ UNCHANGED <<config, collector, rendering, total_iterations, os_log, last_call, held>>

\* lines 73-80: KeyboardInterrupt inside collect_all
InterruptTick ==
    /\ pc = "loop"
    /\ \E env \in RunEnvs, ran \in BOOLEAN : Unfinished(env, ran)
    /\ Leave("interrupt")
    /\ UNCHANGED <<config, rendering, total_iterations, i, clock, os_log, sleeps,
                   last_call, held>>

\* lines 73-80: KeyboardInterrupt after collect_all returned
InterruptProgress ==
    /\ pc = "progress"
    /\ Leave("interrupt")
    /\ UNCHANGED <<config, collector, rendering, total_iterations, i, clock, os_log,
                   sleeps, last_call, held>>

\* lines 73-80: KeyboardInterrupt during time.sleep
InterruptSleep ==
    /\ pc = "sleep"
    /\ Leave("interrupt")
    /\ UNCHANGED <<config, collector, rendering, total_iterations, i, clock, os_log,
                   sleeps, last_call, held>>

\* lines 91-95
Finalize ==
    /\ pc = "finalize"
    /\ LET r == get_history(Self)
       IN  /\ data_history' = r.self.data_history
           /\ network_last' = r.self.network_last
           /\ last_time' = r.self.last_time
           /\ held' = r.ref
           /\ pc' = IF r.ret = <<>> THEN "ret_empty" ELSE "graphs"
    /\ UNCHANGED <<config, rendering, total_iterations, i, clock, os_log,
                   stop, sleeps, last_call>>

\* lines 104-113
GenerateGraphs ==
    /\ pc = "graphs"
    /\ LET r == generate_all_graphs(HeldItems)
       IN  IF r.ok
           THEN /\ graph_paths' = r.graphs
                /\ pc' = "report"
                /\ UNCHANGED graph_error
           ELSE /\ graph_error' = "data"
                /\ pc' = "ret_graph_error"
                /\ UNCHANGED graph_paths
    /\ UNCHANGED <<config, collector, pdf_path, total_iterations, i, clock, os_log,
                   stop, sleeps, last_call, held>>

\* lines 111-113: a chart cannot be written (savefig raises)
GraphsNotWritten ==
    /\ pc = "graphs"
    /\ graph_error' = "io"
    /\ pc' = "ret_graph_error"
    /\ UNCHANGED <<config, collector, graph_paths, pdf_path, total_iterations, i, clock,
                   os_log, stop, sleeps, last_call, held>>

\* lines 119-125
GenerateReport ==
    /\ pc = "report"
    /\ pdf_path' = Some("system_monitor_report.pdf")
    /\ pc' = "done"
    /\ UNCHANGED <<config, collector, graph_paths, graph_error, total_iterations, i,
                   clock, os_log, stop, sleeps, last_call, held>>

\* lines 126-128
ReportRaises ==
    /\ pc = "report"
    /\ pc' = "ret_pdf_error"
    /\ UNCHANGED <<config, collector, rendering, total_iterations, i, clock, os_log,
                   stop, sleeps, last_call, held>>

\* line 102: GraphGenerator(output_dir) raises (os.makedirs); main's handler exits
GraphGeneratorFails ==
    /\ pc = "graphs"
    /\ pc' = "fatal"
    /\ UNCHANGED <<config, collector, rendering, total_iterations, i, clock, os_log,
                   stop, sleeps, last_call, held>>

\* line 117: PDFReporter(output_dir) raises; main's handler exits
PDFReporterFails ==
    /\ pc = "report"
    /\ pc' = "fatal"
    /\ UNCHANGED <<config, collector, rendering, total_iterations, i, clock, os_log,
                   stop, sleeps, last_call, held>>

TickAny == \E env \in RunEnvs : Tick(env)

Next ==
    \/ MainRejects
    \/ MonitorStart
    \/ MonitorInitFails
    \/ TickAny
    \/ TickRaises
    \/ ProgressRaises
    \/ Progress
    \/ Sleep
    \/ InterruptTick
    \/ InterruptProgress
    \/ InterruptSleep
    \/ Finalize
    \/ GraphGeneratorFails
    \/ GenerateGraphs
    \/ GraphsNotWritten
    \/ PDFReporterFails
    \/ GenerateReport
    \/ ReportRaises

Spec == Init /\ [][Next]_vars

-----------------------------------------------------------------------------
(* A caller that uses a ResourceCollector directly: collect_all at any time *)

InitAPI ==
    /\ pc = "api"
    /\ duration_minutes = 1
    /\ interval_seconds = 60
    /\ GPU_AVAILABLE \in BOOLEAN
    /\ InitCollector
    /\ InitRun

run == <<total_iterations, i, stop, sleeps>>

\* collect_all, lines 160-174
CollectAll(env) ==
    /\ pc = "api"
    /\ Len(data_history) < MaxCalls
    /\ LET os == OSAt(env, clock)
           r == collect_all(Self, GPU_AVAILABLE, os)
       IN  /\ os.network.now <= MaxClock
           /\ data_history' = r.self.data_history
           /\ network_last' = r.self.network_last
           /\ last_time' = r.self.last_time
           /\ clock' = os.network.now
           /\ os_log' = Append(os_log, os)
    /\ UNCHANGED <<pc, config, rendering, run, last_call, held>>

\* the caller lets a second pass
Elapse ==
    /\ pc = "api"
    /\ clock < MaxClock
    /\ clock' = clock + 1
    /\ UNCHANGED <<pc, config, collector, rendering, run, os_log, last_call, held>>

CollectAny == \E env \in RunEnvs : CollectAll(env)

NextCollector ==
    \/ CollectAny
    \/ Elapse

SpecCollector == InitAPI /\ [][NextCollector]_vars

-----------------------------------------------------------------------------
(* A caller that invokes single adapters, on every kind of OS answer *)

SensorNames == {"coretemp", "cpu_thermal", "acpitz", "other"}

ReadingOf(name) ==
    CASE name = "coretemp" -> 71
      [] name = "cpu_thermal" -> 62
      [] name = "acpitz" -> 48
      [] OTHER -> 55

\* the readings of a group: none, one or two
ReadingsOf(name, n) ==
    CASE n = 0 -> <<>>
      [] n = 1 -> <<ReadingOf(name)>>
      [] OTHER -> <<ReadingOf(name), ReadingOf(name) + 9>>

\* the results of sensors_temperatures(): groups in the dict's order, names distinct
TemperatureMaps ==
    UNION {
        {[k \in 1..n |-> [name |-> c[k][1], readings |-> ReadingsOf(c[k][1], c[k][2])]]
            : c \in {d \in [1..n -> SensorNames \X (0..2)] :
                        \A a, b \in 1..n : a # b => d[a][1] # d[b][1]}}
        : n \in 0..MaxGroups}

CpuQueries ==
    {[EnvOf({}, FALSE).cpu EXCEPT !.temps = t] : t \in TemperatureMaps}
    \cup {[EnvOf({}, FALSE).cpu EXCEPT !.sensors = e] : e \in {"attr_error", "os_error"}}
    \cup {EnvOf({}, TRUE).cpu, EnvOf({"cpu"}, FALSE).cpu}

\* cumulative counters read by net_io_counters(); a counter restarts at a reset
NetReadings ==
    {[bytes_sent |-> 0, bytes_recv |-> 0, packets_sent |-> 0, packets_recv |-> 0],
     [bytes_sent |-> 125000, bytes_recv |-> 250000, packets_sent |-> 100,
      packets_recv |-> 200],
     [bytes_sent |-> 375000, bytes_recv |-> 250000, packets_sent |-> 300,
      packets_recv |-> 200]}

Loads == {Rat(0, 1), Rat(1, 2), Rat(1, 1)}

Memories == {<<2000, 0>>, <<2000, 8000>>, <<0, 8000>>}

\* the results of GPUtil.getGPUs(): device k has id k - 1
DeviceLists ==
    UNION {
        {[k \in 1..n |-> [Device(k) EXCEPT !.load = c[k][1],
                                           !.memoryUsed = c[k][2][1],
                                           !.memoryTotal = c[k][2][2]]]
            : c \in [1..n -> Loads \X Memories]}
        : n \in 0..MaxDevices}

GpuQueries ==
    {[ok |-> TRUE, gpus |-> d] : d \in DeviceLists}
    \cup {[ok |-> FALSE, gpus |-> <<>>]}

RateState == [network_last |-> network_last, last_time |-> last_time]

direct == <<pc, config, data_history, rendering, run, os_log, held>>

\* an adapter invocation about to be made with the OS answering q
Pending(op, q) == [op |-> op, q |-> q, done |-> FALSE, ret |-> None]

Returned(call, ret) == [call EXCEPT !.done = TRUE, !.ret = ret]

PendingCalls ==
    {Pending("cpu", q) : q \in CpuQueries}
    \cup {Pending("memory", EnvOf(failed, FALSE).memory) : failed \in {{}, {"memory"}}}
    \cup {Pending("disk", EnvOf(failed, bare).disk) :
            failed \in {{}, {"disk"}}, bare \in BOOLEAN}
    \cup {Pending("gpu", q) : q \in GpuQueries}

InitAdapters ==
    /\ pc = "api"
    /\ duration_minutes = 1
    /\ interval_seconds = 60
    /\ GPU_AVAILABLE \in BOOLEAN
    /\ data_history = <<>>
    /\ network_last = CountersAt(0)
    /\ last_time = 0
    /\ clock = 0
    /\ os_log = <<>>
    /\ last_call \in PendingCalls
    /\ held = NoRef
    /\ InitRun

CpuCall ==
    /\ pc = "api"
    /\ last_call.op = "cpu" /\ ~last_call.done
    /\ last_call' = Returned(last_call, collect_cpu_info(last_call.q))
    /\ UNCHANGED <<direct, network_last, last_time, clock>>

MemoryCall ==
    /\ pc = "api"
    /\ last_call.op = "memory" /\ ~last_call.done
    /\ last_call' = Returned(last_call, collect_memory_info(last_call.q))
    /\ UNCHANGED <<direct, network_last, last_time, clock>>

DiskCall ==
    /\ pc = "api"
    /\ last_call.op = "disk" /\ ~last_call.done
    /\ last_call' = Returned(last_call, collect_disk_info(last_call.q))
    /\ UNCHANGED <<direct, network_last, last_time, clock>>

GpuCall ==
    /\ pc = "api"
    /\ last_call.op = "gpu" /\ ~last_call.done
    /\ last_call' = Returned(last_call, collect_gpu_info(GPU_AVAILABLE, last_call.q))
    /\ UNCHANGED <<direct, network_last, last_time, clock>>

NextAdapters ==
    \/ CpuCall
    \/ MemoryCall
    \/ DiskCall
    \/ GpuCall

SpecAdapters == InitAdapters /\ [][NextAdapters]_vars

-----------------------------------------------------------------------------
(* A caller that invokes collect_network_info at any time, while the wall    *)
(* clock advances or is set back                                            *)

\* the latest reading that net_io_counters() has answered: the constructor's
\* (lines 24-25) until an invocation succeeds
LastGood ==
    IF last_call.op # "network" THEN [network_last |-> CountersAt(0), last_time |-> 0]
    ELSE IF last_call.q.ok
    THEN [network_last |-> last_call.q.counters, last_time |-> last_call.q.now]
    ELSE last_call.good

\* collect_network_info, lines 99-131; the history variable keeps the RateState
\* before the call, the latest successful reading before it and whether the
\* invocation before it failed
NetworkCall(q) ==
    /\ pc = "api"
    /\ LET r == collect_network_info(RateState, q)
       IN  /\ network_last' = r.rate.network_last
           /\ last_time' = r.rate.last_time
           /\ last_call' = [op |-> "network", q |-> q, before |-> RateState,
                            done |-> TRUE, ret |-> r.ret, good |-> LastGood,
                            after_failure |-> (last_call.op = "network"
                                                /\ ~last_call.q.ok)]
    /\ UNCHANGED <<direct, clock>>

\* the wall clock is set back by a second (a clock adjustment)
StepBack ==
    /\ pc = "api"
    /\ clock > 0
    /\ clock' = clock - 1
    /\ UNCHANGED <<direct, network_last, last_time, last_call, held>>

Advance ==
    /\ pc = "api"
    /\ clock < MaxClock
    /\ clock' = clock + 1
    /\ UNCHANGED <<direct, network_last, last_time, last_call, held>>

NetworkAny ==
    \E ok \in BOOLEAN, c \in NetReadings :
        NetworkCall([ok |-> ok, now |-> clock, counters |-> c])

NextNetwork ==
    \/ NetworkAny
    \/ StepBack
    \/ Advance

SpecNetwork == InitAPI /\ [][NextNetwork]_vars

-----------------------------------------------------------------------------
(* A caller that uses a ResourceCollector directly and keeps the list that   *)
(* get_history returned: collect_all, get_history, clear_history, and the   *)
(* caller's own changes to the list it holds                                *)

\* an entry that the holder of a list makes up
Foreign ==
    [timestamp |-> 0 - 1, cpu |-> CpuZero, memory |-> MemoryZero, disk |-> DiskZero,
     network |-> NetworkZero, gpu |-> None]

Invoked(op, ret, reads) == [op |-> op, done |-> TRUE, ret |-> ret, reads |-> reads]

\* the number of get_history calls made in a row up to now
Reads == IF last_call.op = "get_history" THEN last_call.reads ELSE 0

\* collect_all, lines 160-174
HistoryCollect(env) ==
    /\ pc = "api"
    /\ Len(os_log) < MaxCalls
    /\ LET os == OSAt(env, clock)
           r == collect_all(Self, GPU_AVAILABLE, os)
       IN  /\ os.network.now <= MaxClock
           /\ data_history' = r.self.data_history
           /\ network_last' = r.self.network_last
           /\ last_time' = r.self.last_time
           /\ clock' = os.network.now
           /\ os_log' = Append(os_log, os)
           /\ last_call' = Invoked("collect_all", r.data, 0)
    /\ UNCHANGED <<pc, config, rendering, run, held>>

\* get_history, lines 176-178: the caller keeps what is returned
GetHistory ==
    /\ pc = "api"
    /\ Reads < MaxReads
    /\ LET r == get_history(Self)
       IN  /\ data_history' = r.self.data_history
           /\ network_last' = r.self.network_last
           /\ last_time' = r.self.last_time
           /\ held' = r.ref
           /\ last_call' = Invoked("get_history", r.ret, Reads + 1)
    /\ UNCHANGED <<pc, config, rendering, run, clock, os_log>>

\* clear_history, lines 180-182
ClearHistory ==
    /\ pc = "api"
    /\ LET r == clear_history(Self, held)
       IN  /\ data_history' = r.self.data_history
           /\ network_last' = r.self.network_last
           /\ last_time' = r.self.last_time
           /\ held' = r.ref
    /\ last_call' = Invoked("clear_history", <<>>, 0)
    /\ UNCHANGED <<pc, config, rendering, run, clock, os_log>>

\* the holder changes the list it holds to items: a list is an object, so the list
\* that self.data_history is bound to changes when it is that list
HolderWrites(op, items) ==
    /\ pc = "api"
    /\ IF held.kind = "shared"
       THEN /\ data_history' = items
            /\ UNCHANGED held
       ELSE /\ held' = Detached(items)
            /\ UNCHANGED data_history
    /\ last_call' = Invoked(op, <<>>, 0)
    /\ UNCHANGED <<pc, config, network_last, last_time, rendering, run, clock, os_log>>

\* held.append(entry)
HolderAppends ==
    /\ held.kind # "none"
    /\ Len(HeldItems) < MaxCalls
    /\ HolderWrites("holder_append", Append(HeldItems, Foreign))

\* held.pop()
HolderRemoves ==
    /\ held.kind # "none"
    /\ HeldItems # <<>>
    /\ HolderWrites("holder_pop", SubSeq(HeldItems, 1, Len(HeldItems) - 1))

\* held[0] = entry
HolderReplaces ==
    /\ held.kind # "none"
    /\ HeldItems # <<>>
    /\ HeldItems[1] # Foreign
    /\ HolderWrites("holder_setitem", [HeldItems EXCEPT ![1] = Foreign])

HolderOps == {"holder_append", "holder_pop", "holder_setitem"}

HistoryCollectAny == \E env \in RunEnvs : HistoryCollect(env)

NextHistory ==
    \/ HistoryCollectAny
    \/ GetHistory
    \/ ClearHistory
    \/ HolderAppends
    \/ HolderRemoves
    \/ HolderReplaces

SpecHistory == InitAPI /\ [][NextHistory]_vars

-----------------------------------------------------------------------------
(* Properties of a monitor_system run (Spec) *)

\* the positions from which the run renders charts, or which it reaches by rendering
RenderingPath ==
    {"finalize", "graphs", "report", "done", "ret_graph_error", "ret_pdf_error", "fatal"}

\* C1: when the run is cancelled (KeyboardInterrupt) while History holds at least one
\* Snapshot, sampling stops, History keeps the Snapshots collected so far and the run
\* goes on to chart rendering and report composition as after normal completion.
C1_CancelledRunRenders ==
    (stop.cause = "interrupt" /\ Len(data_history) >= 1)
        => /\ pc \in RenderingPath
           /\ Len(data_history) = Len(os_log)

\* C2: when an exception escapes collect_all or the loop body, the run finalizes with
\* the partial History whenever History holds a Snapshot, and ends with the
\* empty-history condition only when History is empty.
C2_FailedTickFinalizesPartial ==
    stop.cause = "exception"
        => IF data_history # <<>>
           THEN pc \in RenderingPath
           ELSE pc \in {"ret_failed", "ret_empty"}

\* C3: in every state of a run the length of History is the number of collect_all
\* invocations that completed, degraded Snapshots included, and entry k is the
\* Snapshot of the k-th completed invocation.
C3_HistoryCountsCompletedCalls ==
    /\ Len(data_history) = Len(os_log)
    /\ \A k \in DOMAIN data_history : data_history[k].timestamp = os_log[k].now

C3_Witness ==
    /\ Len(data_history) = 3
    /\ ~os_log[2].cpu.ok /\ ~os_log[2].gpu.ok
    /\ os_log[3].cpu.ok
    /\ data_history[2].timestamp = os_log[2].now

\* C6: an adapter whose OS query fails returns the zeroed/absent record of its own
\* resource; the records of the adapters whose queries succeed carry the values
\* read; the tick appends its Snapshot; and a run that is neither cancelled nor
\* left by an exception performs every scheduled tick, whichever adapters failed.
C6_AdapterFailureIsLocal ==
    /\ Len(data_history) = Len(os_log)
    /\ \A k \in DOMAIN data_history :
        LET os == os_log[k]
            snap == data_history[k]
        IN  /\ ~os.cpu.ok => snap.cpu = CpuZero
            /\ os.cpu.ok => /\ snap.cpu.percent = os.cpu.percent
                            /\ snap.cpu.count = os.cpu.count
            /\ ~os.memory.ok => snap.memory = MemoryZero
            /\ os.memory.ok => /\ snap.memory.total = os.memory.total
                               /\ snap.memory.used = os.memory.used
                               /\ snap.memory.percent = os.memory.percent
                               /\ snap.memory.swap_percent = os.memory.swap_percent
            /\ ~os.disk.ok => snap.disk = DiskZero
            /\ os.disk.ok => /\ snap.disk.total = os.disk.total
                             /\ snap.disk.percent = os.disk.percent
            /\ ~os.network.ok => snap.network = NetworkZero
            /\ os.network.ok => /\ snap.network.bytes_sent = os.network.counters.bytes_sent
                                /\ snap.network.bytes_recv = os.network.counters.bytes_recv
            /\ ~os.gpu.ok => snap.gpu = None
            /\ (os.gpu.ok /\ GPU_AVAILABLE /\ os.gpu.gpus # <<>>)
                   => /\ snap.gpu # None
                      /\ Len(snap.gpu[1].gpus) = Len(os.gpu.gpus)
    /\ stop.cause = "complete" => Len(data_history) = total_iterations

C6_Witness ==
    /\ pc = "done"
    /\ Len(data_history) = 2
    /\ os_log[1].cpu.ok /\ os_log[1].memory.ok
    /\ \A a \in Adapters : ~os_log[2][a].ok
    /\ data_history[2].memory = MemoryZero
    /\ data_history[1].memory # MemoryZero

C9_ScheduledTicks ==
    stop.cause = "complete"
        => LET n == Len(data_history)
               duration == duration_minutes * 60
           IN  /\ n * interval_seconds <= duration
               /\ duration < (n + 1) * interval_seconds
               /\ duration = 2 * interval_seconds => n = 2
               /\ sleeps = n - 1
               /\ \A k \in 1..(n - 1) :
                    data_history[k + 1].timestamp - data_history[k].timestamp
                        >= interval_seconds
               /\ pc \in RenderingPath

C9_Witness ==
    /\ stop.cause = "complete"
    /\ interval_seconds = 25
    /\ Len(data_history) = 2
    /\ sleeps = 1
    /\ pc = "graphs"

-----------------------------------------------------------------------------
(* Properties of the collector under a free caller (SpecCollector) *)

\* C4: History[k].timestamp < History[k+1].timestamp for every sequence of
\* collect_all invocations, consecutive calls that read the same clock instant
\* included.
C4_TimestampsStrictlyIncrease ==
    \A k \in 1..(Len(data_history) - 1) :
        data_history[k].timestamp < data_history[k + 1].timestamp

-----------------------------------------------------------------------------
(* Properties of collect_network_info (SpecNetwork) *)

\* C5: an invocation that reads the counters reports, per direction, rate 0 when the
\* time elapsed since RateState.last_time is <= 0 and otherwise
\* (bytes read - RateState bytes) / elapsed * 8 / 1,000,000; on both branches
\* RateState afterwards holds the counters and the instant just read.
C5_NetworkRate ==
    (last_call.op = "network" /\ last_call.q.ok)
        => LET q == last_call.q
               was == last_call.before
               up == last_call.ret.upload_speed_mbps
               down == last_call.ret.download_speed_mbps
               elapsed == q.now - was.last_time
               sent == q.counters.bytes_sent - was.network_last.bytes_sent
               recv == q.counters.bytes_recv - was.network_last.bytes_recv
           IN  /\ elapsed <= 0 => up = <<0, 1>> /\ down = <<0, 1>>
               /\ elapsed > 0 => /\ up[1] * elapsed * 1000000 = sent * 8 * up[2]
                                 /\ down[1] * elapsed * 1000000 = recv * 8 * down[2]
               /\ (elapsed = 1 /\ sent = 125000) => up = <<1, 1>>
               /\ network_last = q.counters
               /\ last_time = q.now

C5_Witness ==
    /\ last_call.op = "network"
    /\ last_call.q.ok
    /\ last_call.q.now - last_call.before.last_time < 0
    /\ last_call.q.counters # last_call.before.network_last
    /\ last_call.ret.upload_speed_mbps = <<0, 1>>
    /\ network_last = last_call.q.counters

\* C16: an invocation whose counter query raises returns the all-zero record and
\* leaves RateState unchanged; RateState is therefore the latest successful reading,
\* and the next successful invocation derives its rates from the bytes and the time
\* accumulated since that reading.
C16_FailedReadingKeepsRateState ==
    last_call.op = "network"
        => LET q == last_call.q
               good == last_call.good
               up == last_call.ret.upload_speed_mbps
               down == last_call.ret.download_speed_mbps
               elapsed == q.now - good.last_time
               sent == q.counters.bytes_sent - good.network_last.bytes_sent
               recv == q.counters.bytes_recv - good.network_last.bytes_recv
           IN  /\ ~q.ok => /\ last_call.ret = NetworkZero
                           /\ RateState = last_call.before
                           /\ RateState = good
               /\ (q.ok /\ last_call.after_failure)
                    => /\ elapsed <= 0 => up = <<0, 1>> /\ down = <<0, 1>>
                       /\ elapsed > 0
                            => /\ up[1] * elapsed * 1000000 = sent * 8 * up[2]
                               /\ down[1] * elapsed * 1000000 = recv * 8 * down[2]

\* 375000 bytes sent over the two seconds since the constructor's reading, one
\* second before and one after a failed invocation: 1.5 Mbps
C16_Witness ==
    /\ last_call.op = "network"
    /\ last_call.q.ok
    /\ last_call.after_failure
    /\ last_call.good.last_time = 0
    /\ last_call.q.now = 2
    /\ last_call.q.counters.bytes_sent = 375000
    /\ last_call.ret.upload_speed_mbps = <<3, 2>>

-----------------------------------------------------------------------------
(* Properties of single adapters (SpecAdapters) *)

\* C7: the temperature chosen from a sensor map is the first reading of "coretemp"
\* if the map has that group, else the first reading of "cpu_thermal" if it has that
\* group, else the first reading of the map's first group, else absent; the first
\* reading of a group without readings is absent.
C7_TemperatureSelection ==
    (last_call.op = "cpu" /\ last_call.done /\ last_call.q.ok
                          /\ last_call.q.sensors = "ok")
        => LET temps == last_call.q.temps
               chosen == last_call.ret.temperature
               names == {temps[k].name : k \in DOMAIN temps}
               IsFirstOf(readings) ==
                   IF readings = <<>> THEN chosen = <<>> ELSE chosen = <<readings[1]>>
           IN  /\ \A k \in DOMAIN temps :
                    temps[k].name = "coretemp" => IsFirstOf(temps[k].readings)
               /\ \A k \in DOMAIN temps :
                    ("coretemp" \notin names /\ temps[k].name = "cpu_thermal")
                        => IsFirstOf(temps[k].readings)
               /\ (temps # <<>> /\ "coretemp" \notin names /\ "cpu_thermal" \notin names)
                    => IsFirstOf(temps[1].readings)
               /\ temps = <<>> => chosen = <<>>
               /\ temps = <<[name |-> "coretemp", readings |-> <<71>>],
                            [name |-> "other", readings |-> <<55>>]>> => chosen = <<71>>
               /\ temps = <<[name |-> "other", readings |-> <<55>>]>> => chosen = <<55>>

C7_Witness ==
    /\ last_call.op = "cpu"
    /\ last_call.done
    /\ last_call.q.temps = <<[name |-> "cpu_thermal", readings |-> <<62>>],
                             [name |-> "coretemp", readings |-> <<71>>]>>
    /\ last_call.ret.temperature = <<71>>

\* C10: collect_gpu_info returns absent when the GPU library is missing and when it
\* reports no devices; otherwise one record per device, in device order, with load
\* the driver's fractional load times 100 and memory_percent used/total*100 when
\* total > 0 and 0 when total is 0.
C10_GpuRecords ==
    (last_call.op = "gpu" /\ last_call.done)
        => LET q == last_call.q
               ret == last_call.ret
           IN  /\ ~GPU_AVAILABLE => ret = <<>>
               /\ (GPU_AVAILABLE /\ q.ok /\ q.gpus = <<>>) => ret = <<>>
               /\ (GPU_AVAILABLE /\ q.ok /\ q.gpus # <<>>)
                    => /\ ret # <<>>
                       /\ Len(ret[1].gpus) = Len(q.gpus)
                       /\ \A k \in DOMAIN q.gpus :
                            LET gpu == q.gpus[k]
                                rec == ret[1].gpus[k]
                            IN  /\ rec.id = gpu.id
                                /\ rec.load[1] * gpu.load[2] = gpu.load[1] * 100 * rec.load[2]
                                /\ gpu.memoryTotal > 0
                                     => rec.memory_percent[1] * gpu.memoryTotal
                                          = gpu.memoryUsed * 100 * rec.memory_percent[2]
                                /\ gpu.memoryTotal = 0 => rec.memory_percent = <<0, 1>>
                                /\ (gpu.memoryUsed = 2000 /\ gpu.memoryTotal = 8000)
                                     => rec.memory_percent = <<25, 1>>

C10_Witness ==
    /\ last_call.op = "gpu"
    /\ last_call.done
    /\ GPU_AVAILABLE
    /\ Len(last_call.q.gpus) = 2
    /\ last_call.q.gpus[1].memoryTotal = 8000 /\ last_call.q.gpus[1].memoryUsed = 2000
    /\ last_call.q.gpus[2].memoryTotal = 0
    /\ last_call.ret # <<>>
    /\ last_call.ret[1].gpus[2].memory_percent = <<0, 1>>
    /\ last_call.ret[1].gpus[2].id = 1

-----------------------------------------------------------------------------
(* Properties of the validation in main (Spec) *)

\* the positions of a run that has entered the sampling loop or gone past it
Sampling ==
    {"loop", "progress", "sleep", "finalize", "graphs", "report", "done",
     "ret_interrupted", "ret_failed", "ret_empty", "ret_graph_error", "ret_pdf_error"}

\* C11: the configuration is validated before any sampling starts: with duration <= 0,
\* interval <= 0 or interval greater than the total duration the run is rejected with
\* an error exit and performs no tick; every run that starts sampling has at least
\* one scheduled tick.
C11_ValidatedBeforeSampling ==
    /\ (duration_minutes <= 0 \/ interval_seconds <= 0
            \/ interval_seconds > duration_minutes * 60)
         => /\ pc \in {"main", "exit1"}
            /\ os_log = <<>>
            /\ data_history = <<>>
    /\ pc = "exit1" => (duration_minutes <= 0 \/ interval_seconds <= 0
                            \/ interval_seconds > duration_minutes * 60)
    /\ pc \in Sampling => total_iterations >= 1

\* a positive interval longer than the positive duration has been rejected
C11_Witness ==
    /\ pc = "exit1"
    /\ duration_minutes > 0
    /\ interval_seconds > duration_minutes * 60
    /\ os_log = <<>>

-----------------------------------------------------------------------------
(* Properties of History during a run (Spec) *)

IsPrefix(s, t) ==
    /\ Len(s) <= Len(t)
    /\ \A k \in 1..Len(s) : s[k] = t[k]

\* C12: during a run collect_all's append is the only operation that changes History:
\* in every step of monitor_system the History before is a prefix of the History
\* after, and a step that changes it is a collect_all that returns and adds one entry.
C12_HistoryIsAppendOnly ==
    [][/\ IsPrefix(data_history, data_history')
       /\ data_history' # data_history
            => /\ pc = "loop" /\ pc' = "progress"
               /\ Len(data_history') = Len(data_history) + 1
               /\ Len(os_log') = Len(os_log) + 1]_vars

\* a cancelled run has composed its report from the two Snapshots it had collected
C12_Witness ==
    /\ pc = "done"
    /\ stop.cause = "interrupt"
    /\ Len(data_history) = 2
    /\ total_iterations = 3
    /\ pdf_path # None

-----------------------------------------------------------------------------
(* Properties of get_history and clear_history (SpecHistory) *)

\* C13: what get_history returns is a read-only view of History: a change that the
\* holder of the returned sequence makes to it (adding, removing or replacing an
\* element) does not change the History held by the collector.
C13_ReturnedViewIsReadOnly ==
    [][last_call'.op \in HolderOps => data_history' = data_history]_vars

\* C14: get_history is idempotent and free of side effects: a call returns the
\* History as it stands, changes neither History nor RateState, and a call that
\* directly follows another get_history call returns the same ordered sequence.
C14_GetHistoryIsIdempotent ==
    [][last_call'.op = "get_history"
        => /\ data_history' = data_history
           /\ RateState' = RateState
           /\ last_call'.ret = data_history
           /\ last_call.op = "get_history" => last_call'.ret = last_call.ret]_vars

\* the second of two calls in a row has returned a History of two Snapshots
C14_Witness ==
    /\ last_call.op = "get_history"
    /\ last_call.reads = 2
    /\ Len(last_call.ret) = 2
    /\ last_call.ret = data_history
    /\ Len(os_log) = 2

\* C17: clear_history empties History, leaves RateState unchanged and leaves a
\* sequence that get_history returned earlier with the entries it had; the next
\* get_history returns an empty sequence and the next collect_all makes History a
\* sequence of length 1.
C17_ClearHistory ==
    [][/\ last_call'.op = "clear_history"
            => /\ data_history' = <<>>
               /\ RateState' = RateState
               /\ HeldItems' = HeldItems
       /\ (last_call.op = "clear_history" /\ last_call'.op = "get_history")
            => last_call'.ret = <<>>
       /\ (last_call.op = "clear_history" /\ last_call'.op = "collect_all")
            => data_history' = <<last_call'.ret>>]_vars

\* History has been cleared after two Snapshots, and the list returned before the
\* clear still holds both
C17_Witness ==
    /\ last_call.op = "clear_history"
    /\ data_history = <<>>
    /\ held.kind = "detached"
    /\ Len(held.items) = 2
    /\ Len(os_log) = 2
    /\ last_time > 0

-----------------------------------------------------------------------------
(* Properties of the rendering phase of a run (Spec) *)

\* C15: rendering and report composition observe History only after sampling has
\* stopped and only when History is non-empty: when generate_all_graphs is due the
\* loop has been left and History holds a Snapshot, from then on no step is a tick
\* or changes History, generate_report is due or done only with all five chart
\* paths, and after a chart-rendering failure the run has ended without a report.
C15_RenderingAfterSampling ==
    /\ [](/\ pc \in {"graphs", "report", "done", "ret_graph_error", "ret_pdf_error"}
              => /\ stop.cause # "none"
                 /\ data_history # <<>>
                 /\ HeldItems = data_history
          /\ (pc \in {"report", "done", "ret_pdf_error"} \/ pdf_path # None)
              => /\ graph_paths # None
                 /\ DOMAIN graph_paths[1] = {"cpu", "memory", "disk", "network", "gpu"}
                 /\ graph_error = ""
          /\ pdf_path # None => pc = "done"
          /\ (pc = "ret_graph_error" \/ graph_error # "")
              => /\ pc = "ret_graph_error"
                 /\ graph_paths = None
                 /\ pdf_path = None)
    /\ [][/\ pc \in {"graphs", "report", "done", "ret_graph_error", "ret_pdf_error"}
              => /\ data_history' = data_history
                 /\ pc' \in {"report", "done", "ret_graph_error", "ret_pdf_error", "fatal"}
          /\ pc = "ret_graph_error" => pc' = "ret_graph_error"]_vars

\* the report of a completed run of three ticks has been composed from five charts
C15_Witness ==
    /\ pc = "done"
    /\ stop.cause = "complete"
    /\ Len(data_history) = 3
    /\ pdf_path # None
    /\ graph_paths # None

=============================================================================
